---- MODULE Spec2Model ----
(***************************************************************************)
(* Baatein voice agent: the turn pipeline (app/pipeline.py), the synthesis *)
(* adapter (app/tts.py), the token stream (app/llm.py), the search helpers *)
(* (app/search.py), the shared conversation history (app/config.py) and    *)
(* the per-connection session handler (app/server.py).                     *)
(*                                                                         *)
(* Text is a sequence of lexical units.  A unit is a Python substring that *)
(* the code never looks inside: a word, one punctuation character, one     *)
(* whitespace character, one markup character, the literal "[SEARCH:" or   *)
(* "]".  The Python string is the concatenation of the units, so len() is  *)
(* the sum of the units' lengths.                                          *)
(***************************************************************************)
EXTENDS Integers, Sequences, FiniteSets, TLC

\* ------------------------------------------------------------- bounds
MaxTurns == 2
MaxTokens == 2

\* ---------------------------------------------------- program constants
LookAhead == 80
SimNum == 4
SimDen == 10

\* ------------------------------------------------------- lexical units
Marker == "[SEARCH:"
Close == "]"
Dot == "."
Space == " "
Newline == "\n"
Star == "*"
LongRun == "xxxxxxxxxxxxxxxxxxxxxxxxxxxxxxxxxxxxxxxxxxxxxxxxxxxxxxxxxxxxxxxxxxxxxxxxxxxxxxxxx"

WhiteUnits == {Space, Newline}
MarkupUnits == {Star}
FILLER_WORDS == {"um", "okay", "so"}

RECURSIVE TextLen(_)
TextLen(s) == IF s = <<>> THEN 0 ELSE Len(Head(s)) + TextLen(Tail(s))

\* faulty variant: the size of the first word set
Max_First(a, b) == a

Max(a, b) == IF a >= b THEN a ELSE b

\* str.strip(): drop whitespace units at both ends
RECURSIVE LStrip(_)
LStrip(s) == IF s # <<>> /\ Head(s) \in WhiteUnits THEN LStrip(Tail(s)) ELSE s

RECURSIVE RStrip(_)
RStrip(s) ==
  IF s # <<>> /\ s[Len(s)] \in WhiteUnits THEN RStrip(SubSeq(s, 1, Len(s) - 1)) ELSE s

\* faulty variant: nothing is stripped
Strip_None(s) == s

Strip(s) == RStrip(LStrip(s))

\* llm.clean_for_tts: remove emoji and markup characters, then strip
clean_for_tts(text) == Strip(SelectSeq(text, LAMBDA u : u \notin MarkupUnits))

\* SENTENCE_END = [.!?;]\s+|\n : start index of the leftmost match, 0 if none
SentenceEndAt(s, i) ==
  \/ s[i] = Newline
  \/ s[i] = Dot /\ i < Len(s) /\ s[i + 1] \in WhiteUnits

SentenceStart(s) ==
  IF \E i \in 1..Len(s) : SentenceEndAt(s, i)
  THEN CHOOSE i \in 1..Len(s) :
         SentenceEndAt(s, i) /\ \A j \in 1..(i - 1) : ~SentenceEndAt(s, j)
  ELSE 0

\* match.end(): \s+ is greedy, the newline alternative is one character
RECURSIVE WhiteRunEnd(_, _)
WhiteRunEnd(s, i) ==
  IF i < Len(s) /\ s[i + 1] \in WhiteUnits THEN WhiteRunEnd(s, i + 1) ELSE i

SentenceEnd(s) ==
  LET i == SentenceStart(s)
  IN  IF i = 0 THEN 0 ELSE IF s[i] = Dot THEN WhiteRunEnd(s, i) ELSE i

\* llm.extract_sentences: [rest |-> remaining buffer, out |-> fragments put on the queue]
RECURSIVE extract_sentences(_)
extract_sentences(buffer) ==
  LET e == SentenceEnd(buffer)
  IN  IF e = 0
      THEN [rest |-> buffer, out |-> <<>>]
      ELSE LET clean == clean_for_tts(Strip(SubSeq(buffer, 1, e)))
               more  == extract_sentences(SubSeq(buffer, e + 1, Len(buffer)))
           IN  [rest |-> more.rest,
                out  |-> (IF clean # <<>> THEN <<clean>> ELSE <<>>) \o more.out]

\* re.search(r'\[SEARCH:\s*(.+?)\]', text): the group starts at g; the lazy
\* (.+?) takes at least one non-newline character up to the first "]" after it
GroupEnd(s, g) ==
  LET ok(k) == s[k] = Close /\ \A j \in g..(k - 1) : s[j] # Newline
  IN  IF \E k \in (g + 1)..Len(s) : ok(k)
      THEN CHOOSE k \in (g + 1)..Len(s) : ok(k) /\ \A j \in (g + 1)..(k - 1) : ~ok(j)
      ELSE 0

\* the greedy \s* after the marker at i, backing off until the rest matches
GroupStart(s, i) ==
  LET wmax == WhiteRunEnd(s, i) - i
      ok(w) == GroupEnd(s, i + 1 + w) # 0
  IN  IF \E w \in 0..wmax : ok(w)
      THEN i + 1 + (CHOOSE w \in 0..wmax : ok(w) /\ \A v \in (w + 1)..wmax : ~ok(v))
      ELSE 0

HasMarker(s) == \E i \in 1..Len(s) : s[i] = Marker

\* search_match: <<group(1)>> when the pattern matches, <<>> when it does not
search_match(s) ==
  LET ok(i) == s[i] = Marker /\ GroupStart(s, i) # 0
  IN  IF \E i \in 1..Len(s) : ok(i)
      THEN LET i == CHOOSE i \in 1..Len(s) : ok(i) /\ \A j \in 1..(i - 1) : ~ok(j)
               g == GroupStart(s, i)
           IN  <<SubSeq(s, g, GroupEnd(s, g) - 1)>>
      ELSE <<>>

\* str.lower(): the alphabet has one capitalised word
Lower(u) == IF u = "Weather" THEN "weather" ELSE u

LowerText(s) == [i \in 1..Len(s) |-> Lower(s[i])]

\* str.split(): the whitespace-separated words, each a sequence of units
RECURSIVE SplitFrom(_, _)
SplitFrom(s, cur) ==
  IF s = <<>> THEN (IF cur = <<>> THEN <<>> ELSE <<cur>>)
  ELSE IF Head(s) \in WhiteUnits
       THEN (IF cur = <<>> THEN <<>> ELSE <<cur>>) \o SplitFrom(Tail(s), <<>>)
       ELSE SplitFrom(Tail(s), Append(cur, Head(s)))

Split(s) == SplitFrom(s, <<>>)

\* the Python string of a word
RECURSIVE WordStr(_)
WordStr(w) == IF w = <<>> THEN "" ELSE Head(w) \o WordStr(Tail(w))

\* ' '.join(words)
RECURSIVE Join(_)
Join(ws) ==
  IF ws = <<>> THEN <<>>
  ELSE IF Len(ws) = 1 THEN Head(ws) ELSE Head(ws) \o <<Space>> \o Join(Tail(ws))

\* w.strip('.,!?')
RECURSIVE StripPunct(_)
StripPunct(w) ==
  IF w # <<>> /\ Head(w) = Dot THEN StripPunct(Tail(w))
  ELSE IF w # <<>> /\ w[Len(w)] = Dot THEN StripPunct(SubSeq(w, 1, Len(w) - 1))
  ELSE w

\* search.clean_for_search
clean_for_search(transcript) ==
  LET keep(w) == WordStr(StripPunct(LowerText(w))) \notin FILLER_WORDS
      result == Strip(Join(SelectSeq(Split(transcript), keep)))
  IN  IF TextLen(result) < 5 THEN Strip(transcript) ELSE result

\* search.query_similarity, as the fraction <<numerator, denominator>>
WordSet(q) == {WordStr(w) : w \in {Split(LowerText(q))[i] : i \in 1..Len(Split(LowerText(q)))}}

query_similarity(q1, q2) ==
  LET w1 == WordSet(q1)
      w2 == WordSet(q2)
  IN  IF w1 = {} \/ w2 = {} THEN <<0, 1>>
      ELSE <<Cardinality(w1 \cap w2), Max(Cardinality(w1), Cardinality(w2))>>

\* faulty variant: the speculative task is awaited whatever the similarity
SimilarEnough_Always(sim) == TRUE

\* similarity >= 0.4
SimilarEnough(sim) == sim[1] * SimDen >= SimNum * sim[2]

\* ------------------------------------------------ conversation history
SYSTEM_PROMPT == "You are Baatein"

Msg(r, c, t) == [role |-> r, content |-> c, by |-> t]

\* config.sanitize_history: merge adjacent same-role messages after the system message
RECURSIVE SanitizeFrom(_, _)
SanitizeFrom(h, i) ==
  IF i >= Len(h) THEN h
  ELSE IF h[i].role = h[i + 1].role
       THEN SanitizeFrom(
              SubSeq(h, 1, i - 1)
                \o <<[h[i] EXCEPT !.content = @ \o <<Space>> \o h[i + 1].content]>>
                \o SubSeq(h, i + 2, Len(h)),
              i)
       ELSE SanitizeFrom(h, i + 1)

sanitize_history(h) == IF Len(h) < 2 THEN h ELSE SanitizeFrom(h, 2)

\* list.pop()
Pop(h) == SubSeq(h, 1, Len(h) - 1)

\* search.web_search: the formatted results of a query, or the error text
web_search(query, ok) ==
  IF ok THEN "results:" \o WordStr(query) ELSE "Search error:" \o WordStr(query)

\* the second user message of the search round (pipeline.run)
SearchPrompt(query, results) ==
  <<"Here are the web search results for">> \o query \o <<results, "Synthesize">>

\* ------------------------------------------------------- environment
Sessions == {1, 2}
Turns == 1..MaxTurns

\* what the recognition collaborator hands over at a silence boundary
Utterances == {<<"um", Space, "weather", Space, "today">>}

\* the increments the generation collaborator can yield
Tokens ==
  { <<"hi">>,
    <<Dot, Space>>,
    <<Marker, Space, "Weather", Close>>,
    <<Marker, "news", Close>>,
    <<Marker, "news">>,
    <<LongRun>>,
    <<Star>> }

End == <<"<None>">>

VARIABLES history, conns, srv, run, leg, ws, created, used, fn

vars == <<history, conns, srv, run, leg, ws, created, used, fn>>

NoRun ==
  [pc |-> "none", sess |-> 0, transcript |-> <<>>, cancel |-> FALSE,
   full_response |-> <<>>, sentence_buffer |-> <<>>, is_search |-> FALSE,
   search_detected |-> FALSE, decided |-> "none", clean_query |-> <<>>,
   spec |-> "none", adopted |-> FALSE, discarded |-> FALSE,
   search_query |-> <<>>, search_results |-> "", outcome |-> "none",
   exit |-> 0, first_text |-> <<>>, before |-> <<>>]

NoLeg ==
  [n |-> 0, queue |-> <<>>, enq |-> <<>>, prod |-> "idle", cons |-> "idle",
   feeder |-> "idle", reader |-> "idle", chunk_count |-> 0,
   tts_in |-> 0, flushed |-> FALSE, sent |-> <<>>, text |-> <<>>, buffer |-> <<>>]

\* a function or a producer run on its own: op names it, q1 and q2 are the queries
\* of query_similarity, text is what the generation stream delivers in all, unfed
\* the part not yet yielded, r the closure variables of the first leg's producer,
\* buffer the second leg's sentence_buffer, frags what extract_sentences has put
\* on the queue, enq everything put on the queue; for a call of stream_to_client,
\* yielded is what the synthesis collaborator delivers in all, msgs the part not
\* yet read, cancel the cancellation signal, emitted the audio_chunk events sent
\* to the browser and returned the value of the call
NoFn ==
  [op |-> "none", q1 |-> <<>>, q2 |-> <<>>, sim12 |-> <<0, 1>>, sim21 |-> <<0, 1>>,
   n |-> 0, text |-> <<>>, unfed |-> <<>>, r |-> NoRun, buffer |-> <<>>,
   frags |-> <<>>, enq |-> <<>>, done |-> FALSE,
   pc |-> "none", yielded |-> <<>>, msgs |-> <<>>, cancel |-> FALSE,
   chunk_count |-> 0, emitted |-> <<>>, returned |-> 0]

NoWs == [turn |-> 0, ctl |-> <<>>, audio |-> <<>>]

\* the state of the process after start-up, before any connection is accepted
Idle ==
  /\ history = <<Msg("system", <<SYSTEM_PROMPT>>, 0)>>
  /\ srv = [s \in Sessions |->
             [cancel_event |-> 0, current_task |-> 0, ai_speaking |-> FALSE,
              hpc |-> "idle", pending |-> <<>>]]
  /\ run = [t \in Turns |-> NoRun]
  /\ leg = [t \in Turns |-> NoLeg]
  /\ ws = [s \in Sessions |-> NoWs]
  /\ created = 0
  /\ used = 0

\* one browser connection has been accepted
Init ==
  /\ Idle
  /\ conns = {1}
  /\ fn = NoFn

\* websocket.send_text of a pipeline event, seen through two projections of the
\* stream: ctl holds the event types pipeline.run sends other than audio_chunk,
\* audio holds audio_chunk (by chunk_num) and stop_audio
SendCtl(w, e) == [w EXCEPT !.ctl = Append(@, e)]

SendAll(w, es) == [w EXCEPT !.ctl = @ \o es]

SendAudio(w, e) == [w EXCEPT !.audio = Append(@, e)]

AudioChunk(n) == [type |-> "audio_chunk", chunk_num |-> n]

StopAudio == [type |-> "stop_audio", chunk_num |-> 0]

Live(t) == run[t].pc \notin {"none", "done"}

\* a finished turn's objects are unreachable once its session starts the next one
Forget(r) ==
  IF r.pc = "none" THEN r
  ELSE [NoRun EXCEPT !.pc = r.pc, !.sess = r.sess, !.outcome = r.outcome]

\* ----------------------------------------------------- server.py session
\* do_llm_tts, from "cancel_event = asyncio.Event()" to create_task(run())
NewTurn(s, tr) ==
  LET t == created + 1
  IN  /\ created' = t
      /\ srv' = [srv EXCEPT ![s] =
                   [cancel_event |-> t, current_task |-> t, ai_speaking |-> TRUE,
                    hpc |-> "idle", pending |-> <<>>]]
      /\ run' = [u \in Turns |->
                   IF u = t
                   THEN [NoRun EXCEPT !.pc = "start", !.sess = s, !.transcript = tr]
                   ELSE IF run[u].sess = s THEN Forget(run[u]) ELSE run[u]]
      /\ ws' = [ws EXCEPT ![s] = [NoWs EXCEPT !.turn = t]]
      /\ UNCHANGED <<history, conns, fn, leg, used>>

\* faulty variant: the new task is created without waiting for the prior one
MustWaitForOld_Never(s) == FALSE

\* faulty variant: a prior task that has not run yet is not awaited
MustWaitForOld_Started(s) ==
  srv[s].current_task # 0 /\ run[srv[s].current_task].pc \notin {"done", "start"}

\* the prior task must be awaited before the new one is created
MustWaitForOld(s) ==
  srv[s].current_task # 0 /\ run[srv[s].current_task].pc # "done"

\* browser_handler on user_stopped_speaking with a non-empty transcript, then
\* do_llm_tts up to its first suspension
UserStopped(s, tr) ==
  /\ s \in conns
  /\ srv[s].hpc = "idle"
  /\ created + Cardinality({x \in Sessions : srv[x].hpc = "wait_old"}) < MaxTurns
  /\ IF MustWaitForOld(s)
     THEN /\ run' = [run EXCEPT ![srv[s].current_task].cancel = TRUE]
          /\ srv' = [srv EXCEPT ![s].hpc = "wait_old", ![s].pending = tr]
          /\ UNCHANGED <<history, conns, fn, leg, ws, created, used>>
     ELSE NewTurn(s, tr)

\* asyncio.wait_for(current_task, 3.0) returns: the old task has finished
OldTaskDone(s) ==
  /\ s \in conns
  /\ srv[s].hpc = "wait_old"
  /\ run[srv[s].current_task].pc = "done"
  /\ NewTurn(s, srv[s].pending)

\* browser_handler on barge_in
BargeIn(s) ==
  /\ s \in conns
  /\ srv[s].hpc = "idle"
  /\ srv[s].ai_speaking
  /\ srv[s].cancel_event # 0
  /\ ~run[srv[s].cancel_event].cancel
  /\ run' = [run EXCEPT ![srv[s].cancel_event].cancel = TRUE]
  /\ srv' = [srv EXCEPT ![s].ai_speaking = FALSE]
  /\ ws' = [ws EXCEPT ![s] = SendAudio(@, StopAudio)]
  /\ UNCHANGED <<history, conns, fn, leg, created, used>>

\* ------------------------------------------------------ pipeline.run
\* faulty variant: the task ends without clearing ai_speaking
EndTurn_StillSpeaking(t, r, out, line, h) ==
  /\ history' = h
  /\ run' = [run EXCEPT ![t] =
               [NoRun EXCEPT !.pc = "done", !.sess = r.sess, !.cancel = r.cancel,
                             !.outcome = out, !.is_search = r.is_search,
                             !.decided = r.decided, !.spec = r.spec,
                             !.adopted = r.adopted, !.discarded = r.discarded,
                             !.exit = line,
                             !.first_text = IF r.pc = "gather1" THEN r.full_response
                                            ELSE r.first_text,
                             !.before = r.before]]
  /\ leg' = [leg EXCEPT ![t] = NoLeg]
  /\ srv' = srv

\* the task ends (return or exception): server.run's finally clears ai_speaking,
\* the turn's queue, buffers and texts are dropped
EndTurn(t, r, out, line, h) ==
  /\ history' = h
  /\ run' = [run EXCEPT ![t] =
               [NoRun EXCEPT !.pc = "done", !.sess = r.sess, !.cancel = r.cancel,
                             !.outcome = out, !.is_search = r.is_search,
                             !.decided = r.decided, !.spec = r.spec,
                             !.adopted = r.adopted, !.discarded = r.discarded,
                             !.exit = line,
                             !.first_text = IF r.pc = "gather1" THEN r.full_response
                                            ELSE r.first_text,
                             !.before = r.before]]
  /\ leg' = [leg EXCEPT ![t] = NoLeg]
  /\ srv' = [srv EXCEPT ![r.sess].ai_speaking = FALSE]

\* lines 33-36 and 103-109: sanitize, append the user message, tts_start, start the
\* speculative search and the first leg's producer and consumer
PipeStart(t) ==
  /\ run[t].pc = "start"
  /\ history' = Append(sanitize_history(history), Msg("user", run[t].transcript, t))
  /\ ws' = [ws EXCEPT ![run[t].sess] = SendCtl(@, "tts_start")]
  /\ run' = [run EXCEPT ![t].pc = "gather1", ![t].before = history,
                        ![t].clean_query = clean_for_search(run[t].transcript),
                        ![t].spec = "running"]
  /\ leg' = [leg EXCEPT ![t] = [NoLeg EXCEPT !.n = 1, !.prod = "run", !.cons = "wait"]]
  /\ UNCHANGED <<conns, fn, srv, created, used>>

\* faulty variant: the decision is taken again on every increment
Leg1Step_Redecide(r, content) ==
  LET full == r.full_response \o content
      ex   == extract_sentences(r.sentence_buffer \o content)
  IN  IF HasMarker(full)
      THEN [r EXCEPT !.full_response = full, !.is_search = TRUE,
                     !.search_detected = TRUE, !.decided = "marker"]
             @@ [out |-> <<>>]
      ELSE [r EXCEPT !.full_response = full, !.is_search = FALSE,
                     !.sentence_buffer = ex.rest, !.search_detected = TRUE]
             @@ [out |-> ex.out]

\* llm_producer's loop body for one yielded increment (lines 58-79)
Leg1Step(r, content) ==
  LET full == r.full_response \o content
  IN  IF ~r.search_detected
      THEN IF HasMarker(full)
           THEN [r EXCEPT !.full_response = full, !.is_search = TRUE,
                          !.search_detected = TRUE, !.decided = "marker"]
                  @@ [out |-> <<>>]
           ELSE IF TextLen(full) > LookAhead \/ SentenceStart(full) # 0
                THEN [r EXCEPT !.full_response = full, !.is_search = FALSE,
                               !.sentence_buffer = extract_sentences(full).rest,
                               !.search_detected = TRUE, !.decided = "text"]
                       @@ [out |-> extract_sentences(full).out]
                ELSE [r EXCEPT !.full_response = full] @@ [out |-> <<>>]
      ELSE IF ~r.is_search
           THEN [r EXCEPT !.full_response = full,
                          !.sentence_buffer = extract_sentences(r.sentence_buffer \o content).rest]
                  @@ [out |-> extract_sentences(r.sentence_buffer \o content).out]
           ELSE [r EXCEPT !.full_response = full] @@ [out |-> <<>>]

Put(l, items) == [l EXCEPT !.queue = @ \o items, !.enq = @ \o items]

\* the record r without the field out
RunOf(x) == [f \in DOMAIN NoRun |-> x[f]]

\* llm.stream_tokens yields an increment (the cancel check of line 56 passed) and
\* llm_producer handles it
ProducerToken(t, content) ==
  /\ run[t].pc = "gather1"
  /\ leg[t].prod = "run"
  /\ ~run[t].cancel
  /\ used < MaxTokens
  /\ LET x == Leg1Step(run[t], content)
     IN  /\ run' = [run EXCEPT ![t] = RunOf(x)]
         /\ leg' = [leg EXCEPT ![t] = Put(@, x.out)]
  /\ ws' = [ws EXCEPT ![run[t].sess] = SendCtl(@, "llm_chunk")]
  /\ used' = used + 1
  /\ UNCHANGED <<history, conns, fn, srv, created>>

\* faulty variant: the remainder is not flushed
FinalFragment_Drop(buffer) == <<>>

\* faulty variant: the remainder is flushed without looking at what cleaning left
FinalFragment_Unchecked(buffer) ==
  IF Strip(buffer) # <<>> THEN <<clean_for_tts(Strip(buffer))>> ELSE <<>>

\* the final flush of a producer's finally block (lines 82-86, 230-234)
FinalFragment(buffer) ==
  IF Strip(buffer) # <<>> /\ clean_for_tts(Strip(buffer)) # <<>>
  THEN <<clean_for_tts(Strip(buffer))>>
  ELSE <<>>

\* faulty variant: the flush puts a sentinel of its own
Leg1Final_Sentinel(r) ==
  (IF ~r.is_search THEN FinalFragment(r.sentence_buffer) ELSE <<>>) \o <<End>>

\* llm_producer's finally block (lines 80-89)
Leg1Final(r) == IF ~r.is_search THEN FinalFragment(r.sentence_buffer) ELSE <<>>

\* the stream ends ([DONE], a stream error, a non-200 answer, or the cancel check)
ProducerEnd(t) ==
  /\ run[t].pc = "gather1"
  /\ leg[t].prod = "run"
  /\ leg' = [leg EXCEPT ![t] = [Put(@, Leg1Final(run[t]) \o <<End>>) EXCEPT !.prod = "done"]]
  /\ run' = [run EXCEPT ![t].search_detected = TRUE,
                        ![t].decided = IF run[t].search_detected THEN @
                                       ELSE IF run[t].cancel THEN "cut" ELSE "eos"]
  /\ UNCHANGED <<history, conns, fn, srv, ws, created, used>>

\* _search_llm_tts.llm_producer's loop body (lines 225-228)
ProducerToken2(t, content) ==
  /\ run[t].pc = "gather2"
  /\ leg[t].prod = "run"
  /\ ~run[t].cancel
  /\ used < MaxTokens
  /\ LET ex == extract_sentences(leg[t].buffer \o content)
     IN  leg' = [leg EXCEPT ![t] =
                   [Put(@, ex.out) EXCEPT !.text = @ \o content, !.buffer = ex.rest]]
  /\ ws' = [ws EXCEPT ![run[t].sess] = SendCtl(@, "llm_chunk")]
  /\ used' = used + 1
  /\ UNCHANGED <<history, conns, fn, srv, run, created>>

\* _search_llm_tts.llm_producer's finally block (lines 229-235)
ProducerEnd2(t) ==
  /\ run[t].pc = "gather2"
  /\ leg[t].prod = "run"
  /\ leg' = [leg EXCEPT ![t] =
               [Put(@, FinalFragment(leg[t].buffer) \o <<End>>) EXCEPT !.prod = "done"]]
  /\ UNCHANGED <<history, conns, fn, srv, run, ws, created, used>>

\* faulty variant: the consumer skips synthesis only when cancelled
SkipSynthesis_CancelOnly(r) == r.cancel

\* tts_consumer of the first leg returns without synthesis (line 95)
SkipSynthesis(r) == r.is_search \/ r.cancel

\* tts_consumer up to the synthesis connection (lines 92-98, 237-238 and
\* tts.py 24-61); connected = FALSE is a failed connect, caught at tts.py:80
ConsumerStart(t, connected) ==
  /\ run[t].pc \in {"gather1", "gather2"}
  /\ leg[t].cons = "wait"
  /\ leg[t].n = 1 => run[t].search_detected
  /\ leg' = [leg EXCEPT ![t] =
               IF (leg[t].n = 1 /\ SkipSynthesis(run[t])) \/ ~connected
               THEN [@ EXCEPT !.cons = "done"]
               ELSE [@ EXCEPT !.cons = "stream", !.feeder = "run", !.reader = "run"]]
  /\ UNCHANGED <<history, conns, fn, srv, run, ws, created, used>>

\* faulty variant: the feeder takes the newest item of the queue
FeederStep_Newest(t) ==
  /\ leg[t].feeder = "run"
  /\ run[t].cancel \/ leg[t].queue # <<>>
  /\ leg' = [leg EXCEPT ![t] =
               IF run[t].cancel \/ leg[t].queue[Len(leg[t].queue)] = End
               THEN [@ EXCEPT !.feeder = "done", !.flushed = TRUE,
                              !.queue = IF run[t].cancel THEN @
                                        ELSE SubSeq(@, 1, Len(@) - 1)]
               ELSE [@ EXCEPT !.queue = SubSeq(@, 1, Len(@) - 1), !.tts_in = @ + 1,
                              !.sent = Append(@, leg[t].queue[Len(leg[t].queue)])]]
  /\ UNCHANGED <<history, conns, fn, srv, run, ws, created, used>>

\* one round of tts.feeder (tts.py 36-59)
FeederStep(t) ==
  /\ leg[t].feeder = "run"
  /\ run[t].cancel \/ leg[t].queue # <<>>
  /\ leg' = [leg EXCEPT ![t] =
               IF run[t].cancel \/ Head(leg[t].queue) = End
               THEN [@ EXCEPT !.feeder = "done", !.flushed = TRUE,
                              !.queue = IF run[t].cancel THEN @ ELSE Tail(@)]
               ELSE [@ EXCEPT !.queue = Tail(@), !.tts_in = @ + 1,
                              !.sent = Append(@, Head(leg[t].queue))]]
  /\ UNCHANGED <<history, conns, fn, srv, run, ws, created, used>>

\* faulty variant: the reader relays without looking at the cancel signal
ReaderStops_Never(r) == FALSE

\* the reader's cancel check before it relays a message (tts.py 65-67)
ReaderStops(r) == r.cancel

\* the synthesis collaborator yields the audio of one fragment (tts.py 64-74)
ReaderAudio(t) ==
  /\ leg[t].reader = "run"
  /\ leg[t].tts_in > 0
  /\ IF ReaderStops(run[t])
     THEN /\ leg' = [leg EXCEPT ![t].reader = "done"]
          /\ UNCHANGED ws
     ELSE /\ leg' = [leg EXCEPT ![t].chunk_count = @ + 1, ![t].tts_in = @ - 1]
          /\ ws' = [ws EXCEPT ![run[t].sess] = SendAudio(@, AudioChunk(leg[t].chunk_count + 1))]
  /\ UNCHANGED <<history, conns, fn, srv, run, created, used>>

\* the synthesis collaborator yields its "final" event after the flush (tts.py 75-77)
ReaderFinal(t) ==
  /\ leg[t].reader = "run"
  /\ leg[t].flushed
  /\ leg[t].tts_in = 0
  /\ leg' = [leg EXCEPT ![t].reader = "done"]
  /\ UNCHANGED <<history, conns, fn, srv, run, ws, created, used>>

\* asyncio.gather(llm_producer(), tts_consumer()) has returned
LegDone(t) ==
  /\ leg[t].prod = "done"
  /\ \/ leg[t].cons = "done"
     \/ leg[t].cons = "stream" /\ leg[t].reader = "done" /\ leg[t].feeder = "done"

\* faulty variant: the user message is left in place
RollbackUser_Keep(h) == h

\* conversation_history.pop() of the turn's user message (lines 113, 155, 180, 189, 194)
RollbackUser(h) == Pop(h)

\* speculative_search_task.cancel()
Discard(r) == [r EXCEPT !.discarded = TRUE]

\* lines 125-129: the events sent when the search branch is entered
SearchAnnounce == <<"llm_chunk", "search_start">>

\* faulty variant: tts_start is sent before the separating llm_chunk
SecondLegAnnounce_Swapped == <<"tts_start", "llm_chunk">>

\* lines 170-172: the events sent before the second leg
SecondLegAnnounce == <<"llm_chunk", "tts_start">>

\* lines 111-149 and 182-186: after the first leg, up to the next suspension
AfterLeg1(t) ==
  /\ run[t].pc = "gather1"
  /\ LegDone(t)
  /\ \E m \in {search_match(run[t].full_response)} :
     LET r == [run[t] EXCEPT !.first_text = run[t].full_response]
         q == Strip(m[1])
     IN  IF r.cancel
         THEN /\ EndTurn(t, Discard(r), "cancelled", 114, RollbackUser(history))
              /\ UNCHANGED ws
         ELSE /\ UNCHANGED <<history, srv, leg>>
              /\ IF r.is_search
                 THEN IF m # <<>>
                      THEN /\ ws' = [ws EXCEPT ![r.sess] = SendAll(@, SearchAnnounce)]
                           /\ run' = [run EXCEPT ![t] =
                                IF SimilarEnough(query_similarity(r.clean_query, q))
                                THEN [r EXCEPT !.search_query = q, !.pc = "await_spec"]
                                ELSE [Discard(r) EXCEPT !.search_query = q, !.pc = "fresh"]]
                      ELSE /\ ws' = [ws EXCEPT ![r.sess] = SendCtl(@, "llm_done")]
                           /\ run' = [run EXCEPT ![t] = [r EXCEPT !.pc = "llm_done_sent"]]
                 ELSE /\ ws' = [ws EXCEPT ![r.sess] = SendCtl(@, "llm_done")]
                      /\ run' = [run EXCEPT ![t] = [Discard(r) EXCEPT !.pc = "llm_done_sent"]]
  /\ UNCHANGED <<conns, fn, created, used>>

\* lines 154-158: the cancel check after the search, then search_audio_done
AfterSearch(t, r) ==
  IF r.cancel
  THEN /\ EndTurn(t, r, "cancelled", 156, RollbackUser(history))
       /\ UNCHANGED ws
  ELSE /\ run' = [run EXCEPT ![t] = [r EXCEPT !.pc = "sad_sent"]]
       /\ ws' = [ws EXCEPT ![r.sess] = SendCtl(@, "search_audio_done")]
       /\ UNCHANGED <<history, srv, leg>>

\* line 139: wait_for(speculative_search_task, 5.0) returns the result of the
\* thread's web_search(clean_query); the thread's return is seen only here
JoinSpec(t, ok) ==
  /\ run[t].pc = "await_spec"
  /\ AfterSearch(t, [run[t] EXCEPT !.spec = "done",
                                   !.search_results = web_search(run[t].clean_query, ok),
                                   !.adopted = TRUE])
  /\ UNCHANGED <<conns, fn, created, used>>

\* lines 141-143: the thread has not returned within 5 s, wait_for cancels the
\* task and a fresh search is started
SpecTimeout(t) ==
  /\ run[t].pc = "await_spec"
  /\ run' = [run EXCEPT ![t] = [Discard(run[t]) EXCEPT !.pc = "fresh"]]
  /\ UNCHANGED <<history, conns, fn, srv, leg, ws, created, used>>

\* lines 143, 148: to_thread(web_search, search_query) returns
FreshDone(t, ok) ==
  /\ run[t].pc = "fresh"
  /\ AfterSearch(t, [run[t] EXCEPT !.search_results = web_search(run[t].search_query, ok)])
  /\ UNCHANGED <<conns, fn, created, used>>

\* lines 161-174: the two scratch messages, then the second leg starts
StartLeg2(t) ==
  /\ run[t].pc = "sad_sent"
  /\ history' = history
       \o <<Msg("assistant", run[t].full_response, t),
            Msg("user", SearchPrompt(run[t].search_query, run[t].search_results), t)>>
  /\ ws' = [ws EXCEPT ![run[t].sess] = SendAll(@, SecondLegAnnounce)]
  /\ run' = [run EXCEPT ![t].pc = "gather2"]
  /\ leg' = [leg EXCEPT ![t] = [NoLeg EXCEPT !.n = 2, !.prod = "run", !.cons = "wait"]]
  /\ UNCHANGED <<conns, fn, srv, created, used>>

\* lines 174-186: the scratch messages are popped, the cancel check, llm_done
AfterLeg2(t) ==
  /\ run[t].pc = "gather2"
  /\ LegDone(t)
  /\ IF run[t].cancel
     THEN /\ EndTurn(t, run[t], "cancelled", 181, RollbackUser(Pop(Pop(history))))
          /\ UNCHANGED ws
     ELSE /\ history' = Pop(Pop(history))
          /\ run' = [run EXCEPT ![t].full_response = leg[t].text, ![t].pc = "llm_done_sent"]
          /\ ws' = [ws EXCEPT ![run[t].sess] = SendCtl(@, "llm_done")]
          /\ UNCHANGED <<srv, leg>>
  /\ UNCHANGED <<conns, fn, created, used>>

\* lines 188-205: the last cancel check, the empty-response no-op, the commit
Finish(t) ==
  /\ run[t].pc = "llm_done_sent"
  /\ IF run[t].cancel
     THEN /\ EndTurn(t, run[t], "cancelled", 190, RollbackUser(history))
          /\ UNCHANGED ws
     ELSE IF run[t].full_response = <<>>
          THEN /\ EndTurn(t, run[t], "noop", 195, RollbackUser(history))
               /\ UNCHANGED ws
          ELSE /\ history' = Append(history, Msg("assistant", run[t].full_response, t))
               /\ run' = [run EXCEPT ![t].pc = "tts_done_sent", ![t].outcome = "commit"]
               /\ ws' = [ws EXCEPT ![run[t].sess] = SendCtl(@, "tts_done")]
               /\ UNCHANGED <<srv, leg>>
  /\ UNCHANGED <<conns, fn, created, used>>

\* pipeline.run returns after the tts_done send
TaskExit(t) ==
  /\ run[t].pc = "tts_done_sent"
  /\ EndTurn(t, run[t], "commit", 205, history)
  /\ UNCHANGED <<conns, fn, ws, created, used>>

\* server.py 81-87: the 3 s bound elapsed, the task is cancelled at the await it is
\* suspended on; CancelledError unwinds pipeline.run, which has no handler
ForceCancel(s) ==
  /\ s \in conns
  /\ srv[s].hpc = "wait_old"
  /\ run[srv[s].current_task].pc \notin {"start", "done"}
  /\ EndTurn(srv[s].current_task, run[srv[s].current_task],
             IF run[srv[s].current_task].pc = "tts_done_sent" THEN "commit" ELSE "killed",
             0, history)
  /\ UNCHANGED <<conns, fn, ws, created, used>>

Next ==
  \/ \E s \in Sessions, tr \in Utterances : UserStopped(s, tr)
  \/ \E s \in Sessions : OldTaskDone(s)
  \/ \E s \in Sessions : BargeIn(s)
  \/ \E s \in Sessions : ForceCancel(s)
  \/ \E t \in Turns : PipeStart(t)
  \/ \E t \in Turns, c \in Tokens : ProducerToken(t, c)
  \/ \E t \in Turns : ProducerEnd(t)
  \/ \E t \in Turns, c \in Tokens : ProducerToken2(t, c)
  \/ \E t \in Turns : ProducerEnd2(t)
  \/ \E t \in Turns, ok \in BOOLEAN : ConsumerStart(t, ok)
  \/ \E t \in Turns : FeederStep(t)
  \/ \E t \in Turns : ReaderAudio(t)
  \/ \E t \in Turns : ReaderFinal(t)
  \/ \E t \in Turns : AfterLeg1(t)
  \/ \E t \in Turns, ok \in BOOLEAN : JoinSpec(t, ok)
  \/ \E t \in Turns : SpecTimeout(t)
  \/ \E t \in Turns, ok \in BOOLEAN : FreshDone(t, ok)
  \/ \E t \in Turns : StartLeg2(t)
  \/ \E t \in Turns : AfterLeg2(t)
  \/ \E t \in Turns : Finish(t)
  \/ \E t \in Turns : TaskExit(t)

Spec == Init /\ [][Next]_vars

\* ------------------------------------------- query_similarity on its own
MaxQueryLen == 3

SeqsUpTo(S, n) == UNION {[1..k -> S] : k \in 0..n}

\* the queries: three words, one of them also capitalised, and the separator
QueryUnits == {"weather", "Weather", "news", "today", Space}

Queries == SeqsUpTo(QueryUnits, MaxQueryLen)

InitSimilarity ==
  /\ Idle
  /\ conns = {}
  /\ fn \in {[NoFn EXCEPT !.op = "similarity", !.q1 = a, !.q2 = b] : a, b \in Queries}

\* query_similarity is called on the pair, in both orders
Similarity ==
  /\ fn.op = "similarity"
  /\ ~fn.done
  /\ fn' = [fn EXCEPT !.done = TRUE,
                      !.sim12 = query_similarity(fn.q1, fn.q2),
                      !.sim21 = query_similarity(fn.q2, fn.q1)]
  /\ UNCHANGED <<history, conns, srv, run, leg, ws, created, used>>

NextSimilarity == Similarity

SpecSimilarity == InitSimilarity /\ [][NextSimilarity]_vars

\* ------------------------------------------- a leg's producer on its own
\* The generation stream delivers the text in full, cut into non-empty increments
\* at arbitrary boundaries; no cancellation.  n = 1 is llm_producer of
\* pipeline.run, n = 2 is llm_producer of _search_llm_tts.
MaxTextLen == 4

TextUnits == {"hi", Dot, Space, Newline, Star, Marker, LongRun}

Texts == SeqsUpTo(TextUnits, MaxTextLen)

InitProducer ==
  /\ Idle
  /\ conns = {}
  /\ fn \in {[NoFn EXCEPT !.op = "producer", !.n = l, !.text = T, !.unfed = T] :
               l \in {1, 2}, T \in Texts}

\* the first leg's loop body for the increment made of the next k units
Yield1(k) ==
  /\ fn.op = "producer" /\ fn.n = 1
  /\ k \in 1..Len(fn.unfed)
  /\ LET x == Leg1Step(fn.r, SubSeq(fn.unfed, 1, k))
     IN  fn' = [fn EXCEPT !.unfed = SubSeq(@, k + 1, Len(@)),
                          !.r = RunOf(x),
                          !.frags = @ \o x.out,
                          !.enq = @ \o x.out]
  /\ UNCHANGED <<history, conns, srv, run, leg, ws, created, used>>

\* the first leg's finally block at the end of the stream
StreamEnd1 ==
  /\ fn.op = "producer" /\ fn.n = 1
  /\ fn.unfed = <<>> /\ ~fn.done
  /\ fn' = [fn EXCEPT !.enq = @ \o Leg1Final(fn.r) \o <<End>>,
                      !.r = [@ EXCEPT !.search_detected = TRUE],
                      !.done = TRUE]
  /\ UNCHANGED <<history, conns, srv, run, leg, ws, created, used>>

\* the second leg's loop body: extract_sentences on the remainder plus the increment
Yield2(k) ==
  /\ fn.op = "producer" /\ fn.n = 2
  /\ k \in 1..Len(fn.unfed)
  /\ LET ex == extract_sentences(fn.buffer \o SubSeq(fn.unfed, 1, k))
     IN  fn' = [fn EXCEPT !.unfed = SubSeq(@, k + 1, Len(@)),
                          !.buffer = ex.rest,
                          !.frags = @ \o ex.out,
                          !.enq = @ \o ex.out]
  /\ UNCHANGED <<history, conns, srv, run, leg, ws, created, used>>

\* the second leg's finally block at the end of the stream
StreamEnd2 ==
  /\ fn.op = "producer" /\ fn.n = 2
  /\ fn.unfed = <<>> /\ ~fn.done
  /\ fn' = [fn EXCEPT !.enq = @ \o FinalFragment(fn.buffer) \o <<End>>,
                      !.done = TRUE]
  /\ UNCHANGED <<history, conns, srv, run, leg, ws, created, used>>

NextProducer ==
  \/ \E k \in 1..MaxTextLen : Yield1(k)
  \/ StreamEnd1
  \/ \E k \in 1..MaxTextLen : Yield2(k)
  \/ StreamEnd2

SpecProducer == InitProducer /\ [][NextProducer]_vars

\* ------------------------------------------------------- scheduling
\* The steps that need no further message from the user or from a collaborator:
\* the event loop runs a ready task, and a wait that is bounded ends.  The read of
\* the generation stream is bounded by the HTTP client's timeout (config.py 33-34),
\* the queue read by its 0.5 s poll (tts.py 44), the speculative join by its 5 s
\* timeout (pipeline.py 139), the old task's wait by its 3 s timeout (server.py 80),
\* a search by the provider client.  The reads of the generation increments and of
\* the synthesis messages (tts.py 64) are not among them.
Scheduled ==
  \/ \E s \in Sessions : OldTaskDone(s)
  \/ \E s \in Sessions : ForceCancel(s)
  \/ \E t \in Turns : PipeStart(t)
  \/ \E t \in Turns : ProducerEnd(t)
  \/ \E t \in Turns : ProducerEnd2(t)
  \/ \E t \in Turns, ok \in BOOLEAN : ConsumerStart(t, ok)
  \/ \E t \in Turns : FeederStep(t)
  \/ \E t \in Turns : AfterLeg1(t)
  \/ \E t \in Turns, ok \in BOOLEAN : JoinSpec(t, ok)
  \/ \E t \in Turns : SpecTimeout(t)
  \/ \E t \in Turns, ok \in BOOLEAN : FreshDone(t, ok)
  \/ \E t \in Turns : StartLeg2(t)
  \/ \E t \in Turns : AfterLeg2(t)
  \/ \E t \in Turns : Finish(t)
  \/ \E t \in Turns : TaskExit(t)

SpecLive == Init /\ [][Next]_vars /\ WF_vars(Scheduled)

\* --------------------------------------- two connected browser sessions
\* conversation_history is a module-level list: every connection's turns use it
InitShared ==
  /\ Idle
  /\ conns = {1, 2}
  /\ fn = NoFn

\* the increments drawn while two sessions run: one direct answer, one directive
SharedTokens == {<<"hi">>, <<Marker, Space, "Weather", Close>>}

\* the steps of Next, with the generation increments drawn from SharedTokens
NextShared ==
  \/ \E s \in Sessions, tr \in Utterances : UserStopped(s, tr)
  \/ \E s \in Sessions : OldTaskDone(s)
  \/ \E s \in Sessions : BargeIn(s)
  \/ \E s \in Sessions : ForceCancel(s)
  \/ \E t \in Turns : PipeStart(t)
  \/ \E t \in Turns, c \in SharedTokens : ProducerToken(t, c)
  \/ \E t \in Turns : ProducerEnd(t)
  \/ \E t \in Turns, c \in SharedTokens : ProducerToken2(t, c)
  \/ \E t \in Turns : ProducerEnd2(t)
  \/ \E t \in Turns, ok \in BOOLEAN : ConsumerStart(t, ok)
  \/ \E t \in Turns : FeederStep(t)
  \/ \E t \in Turns : ReaderAudio(t)
  \/ \E t \in Turns : ReaderFinal(t)
  \/ \E t \in Turns : AfterLeg1(t)
  \/ \E t \in Turns, ok \in BOOLEAN : JoinSpec(t, ok)
  \/ \E t \in Turns : SpecTimeout(t)
  \/ \E t \in Turns, ok \in BOOLEAN : FreshDone(t, ok)
  \/ \E t \in Turns : StartLeg2(t)
  \/ \E t \in Turns : AfterLeg2(t)
  \/ \E t \in Turns : Finish(t)
  \/ \E t \in Turns : TaskExit(t)

SpecShared == InitShared /\ [][NextShared]_vars

\* ------------------------------------------- the consumer side scheduled
\* the consumer coroutine runs once search_detected is set and the feeder polls
\* its queue every 0.5 s (tts.py 44); nothing is assumed about the generation
\* stream, the synthesis collaborator's messages or the user
SpecForward ==
  /\ Init
  /\ [][Next]_vars
  /\ \A t \in Turns :
       /\ WF_vars(\E ok \in BOOLEAN : ConsumerStart(t, ok))
       /\ WF_vars(FeederStep(t))

\* ------------------------------------------- stream_to_client on its own
MaxMsgs == 3

\* what the synthesis collaborator can yield: audio (two payloads), the "final"
\* event, another event
StreamMessages == {"audio:a", "audio:b", "final", "event"}

IsAudio(m) == m \in {"audio:a", "audio:b"}

InitStream ==
  /\ Idle
  /\ conns = {}
  /\ fn \in {[NoFn EXCEPT !.op = "stream", !.pc = "connect", !.yielded = M, !.msgs = M] :
               M \in SeqsUpTo(StreamMessages, MaxMsgs)}

\* tts.py 79-83: the call returns chunk_count, after the loop or from the handler
\* of line 80
Return(f) == [f EXCEPT !.pc = "returned", !.done = TRUE, !.returned = f.chunk_count]

\* tts.py 24-32: the synthesis connection is opened and configured, or fails
StreamConnect(ok) ==
  /\ fn.op = "stream" /\ fn.pc = "connect"
  /\ fn' = IF ok THEN [fn EXCEPT !.pc = "read"] ELSE Return(fn)
  /\ UNCHANGED <<history, conns, srv, run, leg, ws, created, used>>

\* tts.py 64-77: the reader handles one message; sent = FALSE is a
\* websocket.send_text that raises (the browser has gone)
StreamMessage(sent) ==
  /\ fn.op = "stream" /\ fn.pc = "read"
  /\ fn.msgs # <<>>
  /\ fn' = IF ReaderStops(fn) THEN Return(fn)
           ELSE IF IsAudio(Head(fn.msgs))
                THEN IF sent
                     THEN [fn EXCEPT !.msgs = Tail(@), !.chunk_count = @ + 1,
                                     !.emitted = Append(@, [chunk_num |-> fn.chunk_count + 1,
                                                            audio |-> Head(fn.msgs)])]
                     ELSE Return([fn EXCEPT !.msgs = Tail(@), !.chunk_count = @ + 1])
                ELSE IF Head(fn.msgs) = "final" THEN Return(fn)
                     ELSE [fn EXCEPT !.msgs = Tail(@)]
  /\ UNCHANGED <<history, conns, srv, run, leg, ws, created, used>>

\* the synthesis stream ends without a "final" event: the async for is exhausted
StreamClosed ==
  /\ fn.op = "stream" /\ fn.pc = "read"
  /\ fn.msgs = <<>>
  /\ fn' = Return(fn)
  /\ UNCHANGED <<history, conns, srv, run, leg, ws, created, used>>

\* cancel_event.set() by the session while the call is running
StreamCancel ==
  /\ fn.op = "stream" /\ fn.pc \in {"connect", "read"}
  /\ ~fn.cancel
  /\ fn' = [fn EXCEPT !.cancel = TRUE]
  /\ UNCHANGED <<history, conns, srv, run, leg, ws, created, used>>

NextStream ==
  \/ \E ok \in BOOLEAN : StreamConnect(ok)
  \/ \E sent \in BOOLEAN : StreamMessage(sent)
  \/ StreamClosed
  \/ StreamCancel

SpecStream == InitStream /\ [][NextStream]_vars

\* ------------------------------------------------------------- claims
\* the turn has ended and the session has not yet started the next one
Ended(t) == run[t].pc = "done" /\ run[t].before # <<>>

\* the positions of the messages turn t appended
MessagesBy(t) == {i \in 1..Len(history) : history[i].by = t}

RolesAlternate(h) ==
  /\ h[1].role = "system"
  /\ \A i \in 2..Len(h) : h[i].role = IF i % 2 = 0 THEN "user" ELSE "assistant"

LiveTurns(s) == {t \in Turns : Live(t) /\ run[t].sess = s}

IsChunk(e) == e.type = "audio_chunk"

StopIsLast(a) ==
  \A i \in 1..Len(a) : a[i] = StopAudio => \A j \in (i + 1)..Len(a) : ~IsChunk(a[j])

IsSearchPrompt(m) ==
  m.role = "user" /\ m.content[1] = "Here are the web search results for"

AllChunks(c, a, b) == \A i \in a..b : c[i] = "llm_chunk"

Framed(c) ==
  /\ Len(c) >= 3
  /\ c[1] = "tts_start"
  /\ c[Len(c) - 1] = "llm_done"
  /\ c[Len(c)] = "tts_done"

\* the order as the claim states it: tts_start exactly once
OrderAsStated(c) ==
  /\ Framed(c)
  /\ \/ AllChunks(c, 2, Len(c) - 2)
     \/ \E k \in 2..(Len(c) - 3) :
          /\ AllChunks(c, 2, k - 1)
          /\ c[k] = "search_start"
          /\ c[k + 1] = "search_audio_done"
          /\ AllChunks(c, k + 2, Len(c) - 2)

\* the order with the search branch's separating llm_chunk and second tts_start
OrderAmended(c) ==
  /\ Framed(c)
  /\ \/ AllChunks(c, 2, Len(c) - 2)
     \/ \E k \in 2..(Len(c) - 5) :
          /\ AllChunks(c, 2, k - 1)
          /\ c[k] = "search_start"
          /\ c[k + 1] = "search_audio_done"
          /\ c[k + 2] = "llm_chunk"
          /\ c[k + 3] = "tts_start"
          /\ AllChunks(c, k + 4, Len(c) - 2)

\* the session's latest turn has committed (line 198 was reached)
Committed(s) == ws[s].turn # 0 /\ run[ws[s].turn].outcome = "commit"

\* C1: in every reachable state the roles after the fixed system message strictly
\* alternate user, assistant, user, ...: no two adjacent messages have the same role
C1_RolesAlternate == RolesAlternate(history)

C3_ForcedCancelRollsBack ==
  \A t \in Turns : run[t].pc = "done" /\ run[t].outcome = "killed" => MessagesBy(t) = {}

\* C4: a session has at most one live turn task, and the messages of a live turn
\* are the last ones of the Record (no other turn's append or pop falls between)
C4_OneLiveTurn ==
  /\ \A s \in Sessions : Cardinality(LiveTurns(s)) <= 1
  /\ \A t \in Turns :
       Live(t) => \A i \in MessagesBy(t) : \A j \in i..Len(history) : history[j].by = t

\* C4 witness: a turn superseded a live one, which was force-cancelled, and has
\* appended its user message
C4_Witness ==
  \E t \in Turns :
    /\ t > 1 /\ Live(t) /\ MessagesBy(t) # {}
    /\ run[t - 1].pc = "done" /\ run[t - 1].outcome = "killed"

\* C5: once a turn's cancellation signal is set the turn sends no further
\* audio_chunk, and no audio_chunk follows stop_audio in the event stream
C5_NoAudioAfterCancel ==
  [][\A s \in Sessions :
       /\ (ws[s].turn # 0 /\ run[ws[s].turn].cancel /\ ws'[s].turn = ws[s].turn)
            => ws'[s].audio = ws[s].audio
       /\ StopIsLast(ws'[s].audio)]_vars

\* C5 witness: after chunk 1 a barge-in sent stop_audio, and the reader dropped the
\* next audio message of the synthesis collaborator
C5_Witness ==
  \E s \in Sessions :
    /\ ws[s].audio = <<AudioChunk(1), StopAudio>>
    /\ leg[ws[s].turn].reader = "done"
    /\ leg[ws[s].turn].tts_in > 0

\* C6: after a search-needed turn has ended the Record holds neither the
\* search-results prompt nor an assistant message with the first-leg directive text
C6_NoScratchPersists ==
  \A t \in Turns :
    run[t].pc = "done" /\ run[t].is_search =>
      \A i \in MessagesBy(t) :
        /\ ~IsSearchPrompt(history[i])
        /\ ~(history[i].role = "assistant" /\ history[i].content = run[t].first_text)

\* C7: when the first leg's stream ends uncancelled before either transition fired,
\* the accumulated text, if non-empty after cleaning, is enqueued before the sentinel
C7_ShortAnswerEnqueued ==
  \A t \in Turns :
    /\ run[t].pc = "gather1" /\ leg[t].prod = "done" /\ run[t].decided = "eos"
    /\ ~run[t].cancel
    /\ clean_for_tts(Strip(run[t].full_response)) # <<>>
    => leg[t].enq = <<clean_for_tts(Strip(run[t].full_response)), End>>

\* C8: a turn whose generation stream ended uncancelled with no text appends no
\* assistant message, sends no audio_chunk and no tts_done, and leaves the Record
\* as it was before the turn started
C8_EmptyTurnIsNoOp ==
  \A t \in Turns :
    Ended(t) /\ run[t].decided = "eos" /\ run[t].first_text = <<>> =>
      /\ history = run[t].before
      /\ \A i \in 1..Len(ws[run[t].sess].audio) : ~IsChunk(ws[run[t].sess].audio[i])
      /\ \A i \in 1..Len(ws[run[t].sess].ctl) : ws[run[t].sess].ctl[i] # "tts_done"

\* C9 as stated: the non-audio events of a committed turn are tts_start exactly
\* once and first, llm_chunk*, in the search branch search_start, search_audio_done
\* and the second leg's llm_chunk*, then llm_done, then tts_done
C9_EventOrderAsStated == \A s \in Sessions : Committed(s) => OrderAsStated(ws[s].ctl)

\* C9 amended: as stated, except that in the search branch search_audio_done is
\* followed by one llm_chunk and a second tts_start before the second leg's events
C9_EventOrder == \A s \in Sessions : Committed(s) => OrderAmended(ws[s].ctl)

\* C9 witness: a turn that took the search branch has committed
C9_Witness ==
  \E s \in Sessions :
    /\ Committed(s)
    /\ \E i \in 1..Len(ws[s].ctl) : ws[s].ctl[i] = "search_start"

\* C10: when pipeline.run has returned, the speculative search task has been
\* adopted or cancelled, exactly one of the two; a direct-answer turn cancelled it
C10_AdoptedXorCancelled ==
  \A t \in Turns :
    run[t].pc = "done" /\ run[t].exit # 0 =>
      /\ run[t].adopted # run[t].discarded
      /\ ~run[t].is_search => run[t].discarded

\* the search round of turn t is over and the turn goes on to the second leg
Searched(t) == run[t].pc \in {"sad_sent", "gather2"}

\* the search-results prompt of turn t in the Record
PromptOf(t) == Msg("user", SearchPrompt(run[t].search_query, run[t].search_results), t)

\* what a search with query q can return
Outcomes(q) == {web_search(q, ok) : ok \in BOOLEAN}

\* similarity >= 0.4, computed from the fraction
AtLeastTwoFifths(sim) == 5 * sim[1] >= 2 * sim[2]

\* C11: in a search-needed turn with similarity >= 0.4 the results embedded in the
\* second-leg prompt are never the error text of a failed speculative search: they
\* are the speculative search's results or the outcome (results or error text) of
\* a fresh search with the directive query
C11_FailedSpeculativeReplaced ==
  \A t \in Turns :
    run[t].pc = "gather2" /\ run[t].clean_query # run[t].search_query =>
      /\ history[Len(history)] = PromptOf(t)
      /\ run[t].search_results \in
           {web_search(run[t].clean_query, TRUE)} \cup Outcomes(run[t].search_query)

\* C12: the embedded results come from the speculative task exactly when the
\* similarity is >= 0.4 and the task completed within the timeout; the task is
\* awaited only when the similarity is >= 0.4, and otherwise (or on timeout) it is
\* cancelled and the results come from a fresh search with the directive query
C12_SpeculativeGating ==
  \A t \in Turns :
    LET high == AtLeastTwoFifths(query_similarity(run[t].clean_query, run[t].search_query))
    IN  /\ run[t].pc = "await_spec" => high /\ ~run[t].discarded
        /\ run[t].pc = "fresh" => run[t].discarded /\ ~run[t].adopted
        /\ Searched(t) =>
             /\ run[t].adopted <=> (high /\ ~run[t].discarded)
             /\ run[t].adopted => run[t].search_results \in Outcomes(run[t].clean_query)
             /\ ~run[t].adopted =>
                  /\ run[t].discarded
                  /\ run[t].search_results \in Outcomes(run[t].search_query)
        /\ run[t].pc = "gather2" => history[Len(history)] = PromptOf(t)

\* C12 witness: a second leg runs on a fresh search because the directive query
\* is too different from the heuristic query, the speculative task cancelled
C12_Witness ==
  \E t \in Turns :
    /\ run[t].pc = "gather2"
    /\ ~AtLeastTwoFifths(query_similarity(run[t].clean_query, run[t].search_query))
    /\ run[t].discarded /\ ~run[t].adopted
    /\ run[t].search_results = web_search(run[t].search_query, TRUE)
    /\ history[Len(history)] = PromptOf(t)

\* C13: query_similarity(q1, q2) is the Jaccard ratio |W1 \cap W2| / |W1 \cup W2| of
\* the lowercase word sets, and 0 when either set is empty
C13_IsJaccard ==
  fn.op = "similarity" /\ fn.done =>
    LET w1 == WordSet(fn.q1)
        w2 == WordSet(fn.q2)
    IN  IF w1 = {} \/ w2 = {}
        THEN fn.sim12[1] = 0
        ELSE fn.sim12[1] * Cardinality(w1 \cup w2) = Cardinality(w1 \cap w2) * fn.sim12[2]

\* C14: query_similarity(a, b) = query_similarity(b, a), and the value is 0 when a
\* or b has no words
C14_Symmetric ==
  fn.op = "similarity" /\ fn.done =>
    /\ fn.sim12[1] * fn.sim21[2] = fn.sim21[1] * fn.sim12[2]
    /\ WordSet(fn.q1) = {} \/ WordSet(fn.q2) = {} => fn.sim12[1] = 0 /\ fn.sim21[1] = 0

\* C14 witness: the function was applied to two overlapping queries with word sets
\* of different sizes
C14_Witness ==
  /\ fn.op = "similarity" /\ fn.done
  /\ Cardinality(WordSet(fn.q1)) < Cardinality(WordSet(fn.q2))
  /\ fn.sim12[1] > 0

\* the set of the elements of a sequence
Range(s) == {s[i] : i \in 1..Len(s)}

\* one-shot segmentation of a text followed by its cleaned non-empty remainder
OneShot(T) ==
  LET e == extract_sentences(T)
      c == clean_for_tts(Strip(e.rest))
  IN  e.out \o (IF c # <<>> THEN <<c>> ELSE <<>>)

\* C15: for every split of a text into consecutive chunks, the repeated calls of
\* extract_sentences on (returned remainder + next chunk) enqueue the same set of
\* fragments as one call on the whole text
C15_ChunkIndependent ==
  fn.op = "producer" /\ fn.n = 2 /\ fn.unfed = <<>> =>
    Range(fn.frags) = Range(extract_sentences(fn.text).out)

\* C15 witness: a text was fed in chunks cut inside the whitespace run of a
\* terminator, so that the remainder kept differs from the one-shot remainder
C15_Witness ==
  /\ fn.op = "producer" /\ fn.n = 2 /\ fn.unfed = <<>>
  /\ fn.frags # <<>>
  /\ fn.buffer # extract_sentences(fn.text).rest

\* C16: every item placed on a hand-off queue is the end sentinel or a string that
\* is non-empty after cleaning, from extract_sentences and from the final flush
C16_NoEmptyFragment ==
  \A i \in 1..Len(fn.enq) :
    \/ fn.enq[i] = End /\ i = Len(fn.enq) /\ fn.done
    \/ fn.enq[i] # End /\ fn.enq[i] # <<>> /\ clean_for_tts(fn.enq[i]) # <<>>

\* C16 witness: a markup-only sentence and a markup-only remainder were both
\* suppressed, the queue received the sentinel alone
C16_Witness ==
  /\ fn.op = "producer" /\ fn.done
  /\ fn.text = <<Star, Newline, Star>>
  /\ fn.enq = <<End>>

\* C19: in a leg that runs to the end of generation (a first leg decided
\* direct-answer, or a search-round leg) the fragments enqueued before the
\* sentinel are, for every chunking, those of one-shot segmentation of the full
\* text followed by its cleaned non-empty remainder
C19_FragmentsEqualOneShot ==
  fn.op = "producer" /\ fn.done /\ (fn.n = 2 \/ fn.r.decided = "text") =>
    fn.enq = OneShot(fn.text) \o <<End>>

\* C19 witness: a first leg decided direct-answer was fed in increments cut inside
\* a terminator's whitespace run and has enqueued a sentence and the remainder
C19_Witness ==
  /\ fn.op = "producer" /\ fn.done /\ fn.n = 1 /\ fn.r.decided = "text"
  /\ fn.r.sentence_buffer # extract_sentences(fn.text).rest
  /\ Len(fn.enq) = 3

\* C20: the search decision is made at most once: after search_detected has been
\* set, is_search does not change for the rest of the first leg, whatever the
\* later increments contain
C20_DecisionFinal ==
  [][\A t \in Turns :
       run[t].pc = "gather1" /\ run[t].search_detected /\ run'[t].pc = "gather1" =>
         /\ run'[t].search_detected
         /\ run'[t].is_search = run[t].is_search]_vars

\* C20 witness: a directive marker arrived in a first leg already decided
\* direct-answer, and the leg is still direct-answer
C20_Witness ==
  \E t \in Turns :
    /\ run[t].pc = "gather1"
    /\ run[t].decided = "text" /\ ~run[t].is_search
    /\ HasMarker(run[t].full_response)

\* C17: after a live turn's cancellation signal is set, pipeline.run eventually
\* returns without any further message from the generation or synthesis
\* collaborator
C17_CancelledTurnReturns ==
  \A t \in Turns : (Live(t) /\ run[t].cancel) ~> (run[t].pc = "done")

\* C18: the Record is never mutated concurrently by two turns, whatever sessions
\* they belong to: every pop performed by a turn removes a message that the same
\* turn appended
C18_PopsOwnMessages ==
  [][Len(history') < Len(history) =>
       \A t \in Turns :
         run'[t] # run[t] =>
           \A i \in (Len(history') + 1)..Len(history) : history[i].by = t]_vars

\* C21: in a first leg decided search-needed only the end sentinel is placed on
\* the hand-off queue, the consumer returns without a synthesis stream, and the
\* turn emits no audio_chunk before search_audio_done
C21_SearchLegSilent ==
  \A t \in Turns :
    run[t].is_search =>
      /\ run[t].pc = "gather1" =>
           /\ \A i \in 1..Len(leg[t].enq) : leg[t].enq[i] = End
           /\ leg[t].cons \in {"wait", "done"}
           /\ leg[t].sent = <<>>
      /\ (ws[run[t].sess].turn = t /\ "search_audio_done" \notin Range(ws[run[t].sess].ctl))
           => \A i \in 1..Len(ws[run[t].sess].audio) : ~IsChunk(ws[run[t].sess].audio[i])

\* C21 witness: a leg decided search-needed whose later text held a terminator has
\* ended with the sentinel alone on its queue and its consumer returned
C21_Witness ==
  \E t \in Turns :
    /\ run[t].pc = "gather1"
    /\ run[t].is_search
    /\ Dot \in Range(run[t].full_response)
    /\ leg[t].enq = <<End>>
    /\ leg[t].cons = "done"
    /\ ~run[t].cancel

\* C22: over the lifetime of each leg's hand-off queue exactly one end sentinel is
\* enqueued, when the producer ends for whatever reason, and nothing is enqueued
\* after it
C22_OneSentinel ==
  \A t \in Turns :
    /\ \A i \in 1..Len(leg[t].enq) : leg[t].enq[i] = End => i = Len(leg[t].enq)
    /\ leg[t].prod = "done" <=> End \in Range(leg[t].enq)
    /\ (leg[t].n # 0 /\ LegDone(t)) => End \in Range(leg[t].enq)

\* C22 witness: a producer that had enqueued a fragment ended under cancellation
\* and the sentinel follows the fragment
C22_Witness ==
  \E t \in Turns :
    /\ run[t].cancel
    /\ leg[t].prod = "done"
    /\ Len(leg[t].enq) >= 2
    /\ leg[t].enq[1] # End

\* the fragments of a queue's history, without the sentinel
Frags(e) == SelectSeq(e, LAMBDA x : x # End)

IsPrefix(a, b) == Len(a) <= Len(b) /\ a = SubSeq(b, 1, Len(a))

\* the synthesis connection of the leg could not be opened (tts.py 80)
ConnectFailed(t) ==
  leg[t].cons = "done" /\ ~(leg[t].n = 1 /\ SkipSynthesis(run[t]))

\* what has been forwarded is the start of what was enqueued, and a feeder that
\* stopped without cancellation has read the sentinel after forwarding everything
ForwardedInOrder ==
  \A t \in Turns :
    /\ IsPrefix(leg[t].sent, Frags(leg[t].enq))
    /\ (leg[t].feeder = "done" /\ ~run[t].cancel) =>
         /\ End \in Range(leg[t].enq)
         /\ leg[t].queue = <<>>
         /\ leg[t].sent = Frags(leg[t].enq)

\* C23: in a leg neither cancelled nor hit by a synthesis connection failure every
\* enqueued fragment is eventually forwarded to the synthesis collaborator, once
\* and in the order of enqueueing, the feeder stops after reading the sentinel,
\* and forwarding needs no step of the generation stream, so it does not wait for
\* its end
C23_ForwardedInOrder ==
  /\ []ForwardedInOrder
  /\ \A t \in Turns, k \in 1..(MaxTokens + 1) :
       (Len(Frags(leg[t].enq)) >= k)
         ~> (Len(leg[t].sent) >= k \/ run[t].cancel \/ ConnectFailed(t))

\* C23 witness: a fragment enqueued at the direct-answer transition has been
\* forwarded while the generation stream of the first leg is still open
C23_Witness ==
  \E t \in Turns :
    /\ leg[t].n = 1
    /\ leg[t].prod = "run"
    /\ run[t].decided = "text"
    /\ leg[t].sent # <<>>
    /\ leg[t].sent = Frags(leg[t].enq)
    /\ ~run[t].cancel

\* the audio_chunk events of the call are numbered 1, 2, ... in the order sent and
\* carry the collaborator's audio in the order it was yielded
NumberedInOrder ==
  /\ \A i \in 1..Len(fn.emitted) : fn.emitted[i].chunk_num = i
  /\ IsPrefix([i \in 1..Len(fn.emitted) |-> fn.emitted[i].audio],
              SelectSeq(fn.yielded, IsAudio))

\* C24: within one call of stream_to_client the audio_chunk events carry
\* chunk_num 1, 2, ..., N without gap or repeat, in the order the collaborator
\* yielded the audio, and the value returned is N, the number of chunks emitted
C24_ChunkNumbering ==
  fn.op = "stream" =>
    /\ NumberedInOrder
    /\ fn.done => fn.returned = Len(fn.emitted)

\* C25: a turn's cancellation signal, once set, stays set until the turn's task
\* has finished; a signal is set only on the signal of the session's current task;
\* and the session replaces its signal, by a fresh unset one belonging to the new
\* task, only when the prior task has finished: so a set signal is seen by every
\* later check of its turn and never reaches a later turn
C25_SignalPersists ==
  [][ /\ \A t \in Turns : (run[t].cancel /\ Live(t)) => run'[t].cancel
      /\ \A t \in Turns :
           (~run[t].cancel /\ run'[t].cancel) =>
             /\ Live(t)
             /\ srv[run[t].sess].cancel_event = t
             /\ srv[run[t].sess].current_task = t
      /\ \A s \in Sessions :
           srv'[s].cancel_event # srv[s].cancel_event =>
             /\ srv[s].cancel_event = 0 \/ run[srv[s].cancel_event].pc = "done"
             /\ ~run'[srv'[s].cancel_event].cancel
             /\ srv'[s].current_task = srv'[s].cancel_event
    ]_vars

\* C25 witness: a turn was cancelled and has finished, the session has replaced
\* the signal, and the next turn is past its start with its own signal unset
C25_Witness ==
  \E s \in Sessions :
    /\ srv[s].cancel_event = 2
    /\ run[1].sess = s
    /\ run[1].outcome \in {"cancelled", "killed"}
    /\ run[2].pc \notin {"none", "start", "done"}
    /\ ~run[2].cancel

\* the Record as turn t's commit leaves it: the sanitized Record of the turn's
\* start, the turn's user message, and one assistant message of the turn
CommitAddsTwo(t) ==
  LET base == sanitize_history(run[t].before)
  IN  /\ Len(history) = Len(base) + 2
      /\ SubSeq(history, 1, Len(base)) = base
      /\ history[Len(base) + 1].role = "user"
      /\ history[Len(base) + 1].by = t
      /\ history[Len(base) + 2].role = "assistant"
      /\ history[Len(base) + 2].by = t
      /\ run[t].pc = "tts_done_sent" =>
           /\ history[Len(base) + 1].content = run[t].transcript
           /\ history[Len(base) + 2].content =
                IF leg[t].n = 2 THEN leg[t].text ELSE run[t].full_response

\* C26: a turn that commits leaves the Record exactly two messages longer than the
\* sanitized Record of its start, the user utterance followed by one assistant
\* message holding the final leg's full text; and tts_done is sent only by a turn
\* that commits, whose cancellation signal was unset at its final check
C26_CommitAddsTwo ==
  /\ [](\A t \in Turns : (run[t].outcome = "commit" /\ run[t].before # <<>>) => CommitAddsTwo(t))
  /\ [][\A s \in Sessions :
          ("tts_done" \notin Range(ws[s].ctl) /\ "tts_done" \in Range(ws'[s].ctl))
          => (~run[ws[s].turn].cancel /\ run'[ws[s].turn].outcome = "commit")]_vars

\* the number of stop_audio events in an audio log
Stops(a) == Cardinality({i \in 1..Len(a) : a[i] = StopAudio})

\* C27: in every session state ai_speaking implies that the session has a turn
\* task that has not finished; stop_audio is emitted at most once per turn, and
\* only while the turn's task is running with its cancellation signal unset just
\* before the barge-in
C27_SpeakingHasTask ==
  /\ [](\A s \in Sessions :
          /\ srv[s].ai_speaking =>
               (srv[s].current_task # 0 /\ run[srv[s].current_task].pc # "done")
          /\ Stops(ws[s].audio) <= 1)
  /\ [][\A s \in Sessions :
          ws'[s].audio = Append(ws[s].audio, StopAudio) =>
            /\ srv[s].current_task # 0
            /\ ws[s].turn = srv[s].current_task
            /\ Live(srv[s].current_task)
            /\ ~run[srv[s].current_task].cancel
            /\ run'[srv[s].current_task].cancel]_vars

\* C27 witness: stop_audio has been emitted for a turn whose task is still
\* running, and ai_speaking is false
C27_Witness ==
  \E s \in Sessions :
    /\ Stops(ws[s].audio) = 1
    /\ srv[s].current_task # 0
    /\ run[srv[s].current_task].pc \notin {"start", "done"}
    /\ ~srv[s].ai_speaking
====
